---- MODULE Spec2Model ----
(***************************************************************************)
(* Model of the streaming session controller of Speech-to-Sign             *)
(* (StreamController, src/backend/test-speech-auth.js lines 46-339) and    *)
(* of the two services it drives.                                          *)
(*                                                                         *)
(* Execution model.  Node runs one callback at a time.  Every handler of   *)
(* the controller is one action, except that an `await` suspends the       *)
(* handler: the part after the await is a continuation on the promise job  *)
(* queue (variable microtasks), which runs in FIFO order.  Both awaited    *)
(* functions (createStreamingRecognition, mapTextToSigns) are async        *)
(* functions without an inner await, so their result is fixed at the call  *)
(* and the continuation is queued at once.  Socket messages (dispatched by *)
(* socket.io on process.nextTick) and stream events can already be queued  *)
(* ahead of the promise jobs and then run before the continuation; the     *)
(* setInterval callback is a timer and runs only when the job queue is     *)
(* empty.                                                                  *)
(***************************************************************************)
EXTENDS Integers, Sequences, FiniteSets, TLC

\* ---------------------------------------------------------------- bounds
MaxInputs == 4       \* client messages and provider events over a run
ScriptInputs == 6    \* the same, in a scripted run (SpecScript)
MultiInputs == 3     \* the same, in a run with two sockets (SpecMulti)
MaxStreams == 2      \* recognize streams opened over a run
MaxLen == 3          \* characters of a text handed to mapTextToSigns

\* ------------------------------------------------------ program constants
\* startCleanupTimer: timeout = 5 * 60 * 1000 ms, swept every 60000 ms; the
\* model counts time in sweep intervals, so the timeout is 5 intervals.
TimeoutIntervals == 5

\* Socket ids.
Sockets == {1, 2}

\* Transcripts a provider result can carry, as sequences of characters.
Transcripts == { <<>>, <<" ">>, <<"h", "i">> }

\* The transcript interim results carry in the model.
InterimTranscripts == { <<"h", "i">> }

\* String.prototype.trim on a sequence of characters.
RECURSIVE TrimLeft(_)
TrimLeft(t) == IF t # <<>> /\ Head(t) = " " THEN TrimLeft(Tail(t)) ELSE t

RECURSIVE TrimRight(_)
TrimRight(t) ==
  IF t # <<>> /\ t[Len(t)] = " " THEN TrimRight(SubSeq(t, 1, Len(t) - 1)) ELSE t

Trim(t) == TrimRight(TrimLeft(t))

\* A provider 'data' payload: data.results empty, or results[0] with its
\* first alternative's transcript and the isFinal flag.
DataPayloads ==
  { [hasResults |-> FALSE, transcript |-> <<>>, isFinal |-> FALSE] } \cup
  [hasResults : {TRUE}, transcript : InterimTranscripts, isFinal : {FALSE}] \cup
  [hasResults : {TRUE}, transcript : Transcripts, isFinal : {TRUE}]

\* ---------------------------------------------------------- mapping service
\* Texts are sequences of characters.  The characters of the model: two
\* lower-case letters of dictionary words, one letter of a property name
\* every object inherits, an upper-case letter, white space, punctuation.
Chars == {"a", "b", "c", "A", " ", "!"}

\* The texts of at most n characters.
RECURSIVE TextsUpTo(_)
TextsUpTo(n) ==
  IF n = 0
    THEN { << >> }
    ELSE LET shorter == TextsUpTo(n - 1) IN
         shorter \cup
           { Append(t, c) : t \in { u \in shorter : Len(u) = n - 1 }, c \in Chars }

Texts == TextsUpTo(MaxLen)

\* The argument of mapTextToSigns: a string, or a value that is not one
\* (null, undefined, a number).
TextInputs ==
  [isString : {TRUE}, chars : Texts] \cup
  { [isString |-> FALSE, chars |-> << >>] }

\* String.prototype.toLowerCase
ToLowerCase(t) == [i \in 1..Len(t) |-> IF t[i] = "A" THEN "a" ELSE t[i]]

\* The character classes \w and \s.
IsWordChar(c) == c \in {"a", "b", "c", "A"}
IsSpaceChar(c) == c = " "

\* replace(/[^\w\s]/g, '')
RemovePunctuation(t) ==
  SelectSeq(t, LAMBDA c : IsWordChar(c) \/ IsSpaceChar(c))

\* replace(/\s+/g, ' ')
RECURSIVE CollapseSpaces(_)
CollapseSpaces(t) ==
  IF Len(t) < 2
    THEN t
    ELSE IF IsSpaceChar(t[1]) /\ IsSpaceChar(t[2])
           THEN CollapseSpaces(Tail(t))
           ELSE << t[1] >> \o CollapseSpaces(Tail(t))

\* MappingService.normalizeText: lower case, trim, remove punctuation,
\* collapse white space, in this order.
NormalizeText(t) == CollapseSpaces(RemovePunctuation(Trim(ToLowerCase(t))))

\* String.prototype.indexOf, 1-based; 0 when p does not occur in t.
IndexOf(t, p) ==
  LET at == { i \in 1..(Len(t) - Len(p) + 1) :
                SubSeq(t, i, i + Len(p) - 1) = p }
  IN IF at = {} THEN 0 ELSE CHOOSE i \in at : \A j \in at : i <= j

\* String.prototype.includes
Includes(t, p) == IndexOf(t, p) # 0

\* String.prototype.replace(p, ''): the first occurrence is removed.
ReplaceFirst(t, p) ==
  LET i == IndexOf(t, p) IN
  IF i = 0
    THEN t
    ELSE SubSeq(t, 1, i - 1) \o SubSeq(t, i + Len(p), Len(t))

\* String.prototype.split(' '): every space separates, so two spaces in a
\* row and a leading or trailing space give empty words.
RECURSIVE Split(_)
Split(t) ==
  LET i == IndexOf(t, << " " >>) IN
  IF i = 0
    THEN << t >>
    ELSE << SubSeq(t, 1, i - 1) >> \o Split(SubSeq(t, i + 1, Len(t)))

\* A dictionary is the sequence of its entries in insertion order (the
\* order of Object.keys); keys are distinct.
Entry(k, v) == [key |-> k, videos |-> v]

\* Contents mapping.json may have: phrases of one and two words, a word
\* that is part of another, an entry without videos, a single entry, a
\* word that can stand between the halves of another, no entry at all.
MappingFiles ==
  { << Entry(<<"a">>, <<"A.mp4">>),
       Entry(<<"b">>, <<"B.mp4">>),
       Entry(<<"a", " ", "b">>, <<"A-B-1.mp4", "A-B-2.mp4">>) >>,
    << Entry(<<"a">>, <<"A.mp4">>),
       Entry(<<"a", "b">>, <<"AB.mp4">>),
       Entry(<<"b">>, << >>) >>,
    << Entry(<<"a", "b">>, <<"AB.mp4">>) >>,
    << Entry(<<"b">>, <<"B.mp4">>) >>,
    << Entry(<<"a", "b">>, <<"AB.mp4">>), Entry(<<"c">>, <<"C.mp4">>) >>,
    << >> }

\* MappingService.createFallbackMapping, scaled to the model's words: two
\* words with the same video ('hello', 'hi') and a two-word phrase
\* ('thank you').
FallbackMapping ==
  << Entry(<<"a">>, <<"HELLO.mp4">>),
     Entry(<<"b">>, <<"HELLO.mp4">>),
     Entry(<<"a", " ", "b">>, <<"THANK-YOU.mp4">>) >>

\* this.mappingData: null until loadMappingData has set it.
NullData == [isNull |-> TRUE, entries |-> << >>]
Loaded(entries) == [isNull |-> FALSE, entries |-> entries]

\* Property names every object inherits from Object.prototype that a
\* normalized text can spell ('constructor', '__proto__'), scaled to the
\* model's alphabet.
InheritedKeys == { <<"c">> }

\* The keys of a dictionary.
Keys(entries) == [i \in 1..Len(entries) |-> entries[i].key]

\* this.mappingData[k]: the video list of an own entry; for an inherited
\* property a value that is truthy and not iterable; undefined otherwise.
Get(entries, k) ==
  IF \E i \in 1..Len(entries) : entries[i].key = k
    THEN LET i == CHOOSE i \in 1..Len(entries) : entries[i].key = k IN
         [kind |-> "list", videos |-> entries[i].videos]
    ELSE IF k \in InheritedKeys
           THEN [kind |-> "inherited", videos |-> << >>]
           ELSE [kind |-> "undefined", videos |-> << >>]

\* Object.keys(mappingData).sort((a, b) => b.length - a.length): longest
\* first, insertion order among keys of one length (the sort is stable).
RECURSIVE LongestFirst(_, _)
LongestFirst(keys, n) ==
  IF n < 0
    THEN << >>
    ELSE SelectSeq(keys, LAMBDA k : Len(k) = n) \o LongestFirst(keys, n - 1)

RECURSIVE MaxLength(_)
MaxLength(keys) ==
  IF keys = << >>
    THEN 0
    ELSE LET m == MaxLength(Tail(keys)) IN
         IF Len(Head(keys)) > m THEN Len(Head(keys)) ELSE m

SortedPhrases(entries) == LongestFirst(Keys(entries), MaxLength(Keys(entries)))

\* A confidence totalConfidence / totalWords, the total in tenths (1.0 per
\* phrase is 10, 0.8 per word is 8).
Confidence(tenths, words) == [tenths |-> tenths, words |-> words]

\* findMatches, the result when there is no mapping data: the initial
\* `matches` object.
NoMatches ==
  [threw |-> FALSE, videoFiles |-> << >>, captions |-> << >>,
   confidence |-> Confidence(0, 1), matchedPhrases |-> << >>]

\* Spreading a value that is not iterable throws a TypeError.
TypeErrorThrown == [NoMatches EXCEPT !.threw = TRUE]

\* Mutant of ExactMatch: the exact match is scored like a single word.
ExactMatch_WordScore(text, videos) ==
  [threw |-> FALSE, videoFiles |-> videos, captions |-> << text >>,
   confidence |-> Confidence(8, 1), matchedPhrases |-> << text >>]

\* findMatches, exact match: a copy of the entry's list, the text as the
\* only caption and matched phrase, confidence 1.0.
ExactMatch(text, videos) ==
  [threw |-> FALSE, videoFiles |-> videos, captions |-> << text >>,
   confidence |-> Confidence(10, 1), matchedPhrases |-> << text >>]

\* findMatches, the fallback when no video was collected.
FallbackMatches ==
  [threw |-> FALSE, videoFiles |-> << "NOT-UNDERSTAND.mp4" >>,
   captions |-> << << "I don't understand" >> >>,
   confidence |-> Confidence(1, 1),
   matchedPhrases |-> << << "fallback" >> >>]

\* findMatches, the loop over the phrases: a phrase contained in the
\* remaining text is recorded and its first occurrence removed.
RECURSIVE PhraseLoop(_, _, _)
PhraseLoop(entries, phrases, acc) ==
  IF phrases = << >>
    THEN acc
    ELSE LET phrase == Head(phrases) IN
         IF Includes(acc.remainingText, phrase)
           THEN PhraseLoop(entries, Tail(phrases),
                  [acc EXCEPT
                     !.videoFiles = @ \o Get(entries, phrase).videos,
                     !.captions = Append(@, phrase),
                     !.remainingText = Trim(ReplaceFirst(@, phrase)),
                     !.totalConfidence = @ + 10,
                     !.matchCount = @ + 1])
           ELSE PhraseLoop(entries, Tail(phrases), acc)

\* findMatches, the loop over the remaining words: a word with a truthy
\* mappingData[word] is recorded; spreading an inherited value throws.
RECURSIVE WordLoop(_, _, _)
WordLoop(entries, words, acc) ==
  IF words = << >> \/ acc.threw
    THEN acc
    ELSE LET word == Head(words)
             found == Get(entries, word)
         IN IF found.kind = "undefined"
              THEN WordLoop(entries, Tail(words), acc)
              ELSE IF found.kind = "inherited"
                     THEN [acc EXCEPT !.threw = TRUE]
                     ELSE WordLoop(entries, Tail(words),
                            [acc EXCEPT
                               !.videoFiles = @ \o found.videos,
                               !.captions = Append(@, word),
                               !.totalConfidence = @ + 8,
                               !.matchCount = @ + 1])

\* MappingService.findMatches
FindMatches(data, text) ==
  IF data.isNull
    THEN NoMatches
    ELSE
      LET entries == data.entries
          exact == Get(entries, text)
      IN IF exact.kind = "list"
           THEN ExactMatch(text, exact.videos)
           ELSE IF exact.kind = "inherited"
             THEN TypeErrorThrown
             ELSE
               LET words == Split(text)
                   afterPhrases ==
                     PhraseLoop(entries, SortedPhrases(entries),
                       [threw |-> FALSE, videoFiles |-> << >>,
                        captions |-> << >>, remainingText |-> text,
                        totalConfidence |-> 0, matchCount |-> 0])
                   remainingWords ==
                     SelectSeq(Split(afterPhrases.remainingText),
                               LAMBDA w : Len(w) > 0)
                   acc == WordLoop(entries, remainingWords, afterPhrases)
               IN IF acc.threw
                    THEN TypeErrorThrown
                    ELSE IF Len(acc.videoFiles) = 0
                      THEN FallbackMatches
                      ELSE [threw |-> FALSE,
                            videoFiles |-> acc.videoFiles,
                            captions |-> acc.captions,
                            confidence |->
                              IF acc.matchCount > 0
                                THEN Confidence(acc.totalConfidence, Len(words))
                                ELSE Confidence(0, 1),
                            matchedPhrases |-> acc.captions]

\* An element of result.signs.  The duration (vocabulary.csv, 2000 ms by
\* default) is left out.
Sign(filename) ==
  [url |-> << "https://your-cdn-domain.com/videos/", filename >>,
   filename |-> filename]

\* mapTextToSigns rejecting with an error.
Rejected(message) ==
  [threw |-> TRUE, error |-> message, signs |-> << >>, captions |-> << >>,
   confidence |-> Confidence(0, 1), matchedPhrases |-> << >>]

\* MappingService.mapTextToSigns: the result it resolves with, or the
\* error it rejects with.  processingTime is left out.
MapTextToSigns(data, input) ==
  IF ~input.isString \/ input.chars = << >>
    THEN Rejected("Invalid text input")
    ELSE LET matches == FindMatches(data, NormalizeText(input.chars)) IN
         IF matches.threw
           THEN Rejected("TypeError")
           ELSE [threw |-> FALSE, error |-> "",
                 signs |-> [i \in 1..Len(matches.videoFiles) |->
                              Sign(matches.videoFiles[i])],
                 captions |-> matches.captions,
                 confidence |-> matches.confidence,
                 matchedPhrases |-> matches.matchedPhrases]

VARIABLES
  googleClient,       \* SpeechService.googleClient is set (constructor)
  sock,               \* socket id -> "absent" | "new" | "connected" | "disconnected"
  activeConnections,  \* the Map: socket id -> [recognizeStream, idle], idle
                      \* being now - lastActivity in sweep intervals
  streams,            \* recognize streams opened so far, by index
  microtasks,         \* promise job queue: suspended handlers, FIFO
  out,                \* socket id -> sequence of events emitted to it
  inputs,             \* client messages and provider events so far
  budget,             \* how many of them the run may have (fixed)
  mappingData,        \* MappingService.mappingData
  loadStep,           \* where loadMappingData is: "mapping" | "vocabulary" | "done"
  lastCall,           \* the latest mapTextToSigns call: argument, the
                      \* mappingData it saw, what it settled with
  openaiClient,       \* SpeechService.openaiClient is set (constructor)
  request,            \* a POST /api/speech-to-signs: where its handler is,
                      \* what transcribeAudio settled with, the response
  recorder,           \* StreamingAudioRecorder with its useWebSocket hook
  player              \* VideoPlayer: its props and state at a render

\* The state of the mapping service.
service == <<mappingData, loadStep, lastCall>>

\* The REST route and the two front-end components.
apps == <<openaiClient, request, recorder, player>>

vars == <<googleClient, sock, activeConnections, streams, microtasks, out,
          inputs, budget, mappingData, loadStep, lastCall,
          openaiClient, request, recorder, player>>

\* ------------------------------------------------------------ event log
\* An emitted event.  ev and msg are what socket.emit sends; b (the stream
\* the emitting handler belongs to or acts on, 0 for none), id (the number
\* of the provider data event it reports, 0 for none), transcript and
\* isFinal identify the payload.
Event(ev, msg, b, id, transcript, isFinal) ==
  [ev |-> ev, msg |-> msg, b |-> b, id |-> id,
   transcript |-> transcript, isFinal |-> isFinal]

Plain(ev, msg, b) == Event(ev, msg, b, 0, <<>>, FALSE)

\* ---------------------------------------------------------------- streams
\* A stream returned by googleClient.streamingRecognize.
\*   owner      socket whose start-streaming opened it
\*   attached   the controller's data/error/end listeners are registered
\*   destroyed  stream.destroyed
\*   endCalls   number of calls of stream.end()
\*   writes     number of chunks passed to stream.write()
\*   ended      the 'end' event has been emitted
\*   errPending the stream failed and its 'error' event is not yet emitted
NewStream(s) ==
  [owner |-> s, attached |-> FALSE, destroyed |-> FALSE, endCalls |-> 0,
   writes |-> 0, ended |-> FALSE, errPending |-> FALSE]

\* Map.prototype.delete
MapDelete(m, k) == [x \in DOMAIN m \ {k} |-> m[x]]

\* Map.prototype.set
MapSet(m, k, v) == [x \in DOMAIN m \cup {k} |-> IF x = k THEN v ELSE m[x]]

\* No mapTextToSigns call has been made.
NoCall ==
  [called |-> FALSE, input |-> [isString |-> FALSE, chars |-> << >>],
   data |-> NullData, result |-> Rejected("")]

\* A text-less value: what a request holds before transcribeAudio settles.
NoValue == [isString |-> FALSE, text |-> << >>]

\* No response sent yet.
NoResponse ==
  [status |-> 0, error |-> "", message |-> "", transcript |-> NoValue,
   mappedSigns |-> << >>, captions |-> << >>, confidence |-> Confidence(0, 1)]

\* No request received yet.
NoRequest ==
  [step |-> "idle", transcribed |-> FALSE, service |-> "", value |-> NoValue,
   response |-> NoResponse]

\* StreamingAudioRecorder at its first render: useWebSocket's and
\* useStreamingRecorder's initial state, no toggle under way.
RecorderAtMount ==
  [isConnected |-> FALSE, isStreaming |-> FALSE, isRecording |-> FALSE,
   hasPermission |-> "unknown", phase |-> "idle", seen |-> FALSE,
   seenConnected |-> FALSE, attempts |-> 0, session |-> FALSE,
   outcome |-> ""]

\* A progress value in percent, as the fraction num / den.
Percent(num, den) == [num |-> num, den |-> den]

\* VideoPlayer at its first render, with no clips.  signVideos is the
\* length of the list.
PlayerAtMount ==
  [signVideos |-> 0, currentVideoIndex |-> 0, isPlaying |-> FALSE,
   progress |-> Percent(0, 1), effect |-> FALSE, threw |-> FALSE]

\* The state after construction, with the sockets of `clients` about to
\* connect and the others never connecting, for a run of at most n inputs.
InitWith(clients, n) ==
  /\ googleClient \in BOOLEAN
  /\ sock = [s \in Sockets |-> IF s \in clients THEN "new" ELSE "absent"]
  /\ activeConnections = << >>
  /\ streams = << >>
  /\ microtasks = << >>
  /\ out = [s \in Sockets |-> << >>]
  /\ inputs = 0
  /\ budget = n
  /\ mappingData = NullData
  /\ loadStep = "mapping"
  /\ lastCall = NoCall
  /\ openaiClient = FALSE
  /\ request = NoRequest
  /\ recorder = RecorderAtMount
  /\ player = PlayerAtMount

\* One client connection.
Init == InitWith({1}, MaxInputs)

\* io.on('connection'): the socket's handlers are registered.
Connect(s) ==
  /\ sock[s] = "new"
  /\ sock' = [sock EXCEPT ![s] = "connected"]
  /\ UNCHANGED <<apps, service, googleClient, budget, activeConnections, streams, microtasks, out,
                 inputs>>

\* ------------------------------------------------ stopStreamingRecognition
\* The stream the registry holds for socket s, 0 when there is no entry.
Registered(ac, s) == IF s \in DOMAIN ac THEN ac[s].recognizeStream ELSE 0

\* Mutant of StopStreams: end() is called without looking at `destroyed`.
StopStreams_NoDestroyedCheck(st, ac, s) ==
  LET b == Registered(ac, s) IN
  IF b # 0 THEN [st EXCEPT ![b].endCalls = @ + 1] ELSE st

\* stopStreamingRecognition, effect on the streams: end() on the registered
\* stream unless it is destroyed.
StopStreams(st, ac, s) ==
  LET b == Registered(ac, s) IN
  IF b # 0 /\ ~st[b].destroyed
    THEN [st EXCEPT ![b].endCalls = @ + 1]
    ELSE st

\* Mutant of StopConnections: the entry is not deleted.
StopConnections_NoDelete(ac, s) == ac

\* stopStreamingRecognition, effect on the registry: the entry is deleted.
StopConnections(ac, s) == IF s \in DOMAIN ac THEN MapDelete(ac, s) ELSE ac

\* stopStreamingRecognition, emitted events: always streaming-stopped.
StopEvents(ac, s) == << Plain("streaming-stopped", "", Registered(ac, s)) >>

\* ------------------------------------------------------------ promise jobs
\* A suspended handler.  kind "start": startStreamingRecognition after
\* `await speechService.createStreamingRecognition` (stream 0: the call
\* rejected).  kind "map": handleStreamingResult after
\* `await mappingService.mapTextToSigns(transcript)`.
Job(kind, s, b, id, transcript) ==
  [kind |-> kind, sock |-> s, stream |-> b, id |-> id,
   transcript |-> transcript]

\* Mutant of Suspend: the newest continuation runs first.
Suspend_Front(q, j) == << j >> \o q

\* `await` on a promise of an async function that awaits nothing itself
\* (createStreamingRecognition, mapTextToSigns): the continuation is queued
\* behind the continuations already waiting.
Suspend(q, j) == Append(q, j)

\* SpeechService.createStreamingRecognition: rejects when no Google client
\* is configured, otherwise opens a stream.
CanOpen == googleClient

\* --------------------------------------------------------- client messages
\* socket.on('start-streaming') up to the await in
\* startStreamingRecognition: the stream is requested, the handler suspends.
StartStreaming(s) ==
  /\ sock[s] = "connected"
  /\ inputs < budget
  /\ inputs' = inputs + 1
  /\ IF CanOpen
       THEN /\ Len(streams) < MaxStreams
            /\ streams' = Append(streams, NewStream(s))
            /\ microtasks' =
                 Suspend(microtasks, Job("start", s, Len(streams) + 1, 0, <<>>))
       ELSE /\ streams' = streams
            /\ microtasks' = Suspend(microtasks, Job("start", s, 0, 0, <<>>))
  /\ UNCHANGED <<apps, service, googleClient, budget, sock, activeConnections, out>>

\* Mutant of StartRegister: the registry is replaced by the new entry.
StartRegister_Alone(ac, s, b) ==
  [t \in {s} |-> [recognizeStream |-> b, idle |-> 0]]

\* startStreamingRecognition after the await, stream opened: the registry
\* entry is set (Map.set overwrites), listeners attached.
StartRegister(ac, s, b) == MapSet(ac, s, [recognizeStream |-> b, idle |-> 0])

\* startStreamingRecognition after the await: events of the success path.
StartedEvents(b) == << Plain("streaming-started", "", b) >>

\* Mutant of StartFailedEvents: the inner catch only rethrows.
StartFailedEvents_NoStreamingError ==
  << Plain("error", "Failed to start streaming recognition", 0) >>

\* startStreamingRecognition's catch (streaming-error, rethrow) followed by
\* the catch of the 'start-streaming' handler (error).
StartFailedEvents ==
  << Plain("streaming-error", "Failed to start streaming recognition", 0),
     Plain("error", "Failed to start streaming recognition", 0) >>

\* The continuation of startStreamingRecognition.
StartContinue ==
  /\ microtasks # << >>
  /\ Head(microtasks).kind = "start"
  /\ LET j == Head(microtasks)
         s == j.sock
         b == j.stream
     IN IF b # 0
          THEN /\ activeConnections' = StartRegister(activeConnections, s, b)
               /\ streams' = [streams EXCEPT ![b].attached = TRUE]
               /\ out' = [out EXCEPT ![s] = @ \o StartedEvents(b)]
          ELSE /\ out' = [out EXCEPT ![s] = @ \o StartFailedEvents]
               /\ UNCHANGED <<activeConnections, streams>>
  /\ microtasks' = Tail(microtasks)
  /\ UNCHANGED <<apps, service, googleClient, budget, sock, inputs>>

\* Mutant of AudioStreams: the chunk is dropped.
AudioStreams_NoWrite(st, b) == st

\* processStreamingAudio with a registry entry: the chunk is written unless
\* the stream is destroyed.
AudioStreams(st, b) ==
  IF ~st[b].destroyed THEN [st EXCEPT ![b].writes = @ + 1] ELSE st

\* processStreamingAudio with a registry entry: emitted events.
AudioEvents(st, b) ==
  IF ~st[b].destroyed
    THEN << >>
    ELSE << Plain("streaming-error", "Streaming session ended", b) >>

\* processStreamingAudio with a registry entry: effect on the registry
\* (lastActivity = Date.now()).
AudioConnections(ac, s) == [ac EXCEPT ![s].idle = 0]

\* Mutant of NoSessionEvents: the missing session is reported as an ended
\* stream.
NoSessionEvents_StreamingError ==
  << Plain("streaming-error", "Streaming session ended", 0) >>

\* processStreamingAudio without a registry entry.
NoSessionEvents == << Plain("error", "No active streaming session", 0) >>

\* socket.on('audio-data')
AudioData(s) ==
  /\ sock[s] = "connected"
  /\ inputs < budget
  /\ inputs' = inputs + 1
  /\ IF s \in DOMAIN activeConnections
       THEN LET b == activeConnections[s].recognizeStream IN
            /\ activeConnections' = AudioConnections(activeConnections, s)
            /\ streams' = AudioStreams(streams, b)
            /\ out' = [out EXCEPT ![s] = @ \o AudioEvents(streams, b)]
       ELSE /\ out' = [out EXCEPT ![s] = @ \o NoSessionEvents]
            /\ UNCHANGED <<activeConnections, streams>>
  /\ UNCHANGED <<apps, service, googleClient, budget, sock, microtasks>>

\* socket.on('stop-streaming')
StopStreaming(s) ==
  /\ sock[s] = "connected"
  /\ inputs < budget
  /\ inputs' = inputs + 1
  /\ streams' = StopStreams(streams, activeConnections, s)
  /\ activeConnections' = StopConnections(activeConnections, s)
  /\ out' = [out EXCEPT ![s] = @ \o StopEvents(activeConnections, s)]
  /\ UNCHANGED <<apps, service, googleClient, budget, sock, microtasks>>

\* socket.on('disconnect')
Disconnect(s) ==
  /\ sock[s] = "connected"
  /\ inputs < budget
  /\ inputs' = inputs + 1
  /\ sock' = [sock EXCEPT ![s] = "disconnected"]
  /\ streams' = StopStreams(streams, activeConnections, s)
  /\ activeConnections' = StopConnections(activeConnections, s)
  /\ out' = [out EXCEPT ![s] = @ \o StopEvents(activeConnections, s)]
  /\ UNCHANGED <<apps, service, googleClient, budget, microtasks>>

\* ---------------------------------------------------------- provider events
\* Mutant of ResultEvents: interim results are held back.
ResultEvents_FinalOnly(b, id, d) ==
  IF d.hasResults /\ d.isFinal
    THEN << Event("transcript-update", "", b, id, d.transcript, d.isFinal) >>
    ELSE << >>

\* handleStreamingResult up to its await: transcript-update is emitted for
\* a payload with results, nothing otherwise.
ResultEvents(b, id, d) ==
  IF d.hasResults
    THEN << Event("transcript-update", "", b, id, d.transcript, d.isFinal) >>
    ELSE << >>

\* Mutant of NeedsMapping: the transcript is tested without trim().
NeedsMapping_NoTrim(d) == d.hasResults /\ d.isFinal /\ d.transcript # << >>

\* handleStreamingResult: `isFinal && transcript.trim()` guards the mapping.
NeedsMapping(d) == d.hasResults /\ d.isFinal /\ Trim(d.transcript) # << >>

\* recognizeStream.on('data'): handleStreamingResult runs up to the await of
\* mapTextToSigns and suspends there when the result is final and non-blank.
ProviderData(b, d) ==
  /\ b \in DOMAIN streams
  /\ streams[b].attached
  /\ ~streams[b].destroyed
  /\ ~streams[b].ended
  /\ inputs < budget
  /\ inputs' = inputs + 1
  /\ LET s == streams[b].owner
         id == inputs + 1
     IN /\ out' = [out EXCEPT ![s] = @ \o ResultEvents(b, id, d)]
        /\ microtasks' =
             IF NeedsMapping(d)
               THEN Suspend(microtasks, Job("map", s, b, id, d.transcript))
               ELSE microtasks
  /\ UNCHANGED <<apps, service, googleClient, budget, sock, activeConnections, streams>>

\* Mutant of MappingEvents: the inner catch swallows the failure.
MappingEvents_Silent(j, ok) ==
  IF ok
    THEN << Event("signs-update", "", j.stream, j.id, j.transcript, TRUE) >>
    ELSE << >>

\* handleStreamingResult after the await: signs-update when mapTextToSigns
\* resolved, mapping-error (the inner catch) when it rejected.
MappingEvents(j, ok) ==
  IF ok
    THEN << Event("signs-update", "", j.stream, j.id, j.transcript, TRUE) >>
    ELSE << Event("mapping-error", "Failed to map text to signs",
                  j.stream, j.id, j.transcript, TRUE) >>

\* The continuation of handleStreamingResult.
MappingContinue(ok) ==
  /\ microtasks # << >>
  /\ Head(microtasks).kind = "map"
  /\ LET j == Head(microtasks) IN
       out' = [out EXCEPT ![j.sock] = @ \o MappingEvents(j, ok)]
  /\ microtasks' = Tail(microtasks)
  /\ UNCHANGED <<apps, service, googleClient, budget, sock, activeConnections, streams, inputs>>

\* The provider side of a stream fails: the stream is destroyed and its
\* 'error' event is scheduled.
ProviderFail(b) ==
  /\ b \in DOMAIN streams
  /\ ~streams[b].destroyed
  /\ ~streams[b].ended
  /\ inputs < budget
  /\ inputs' = inputs + 1
  /\ streams' = [streams EXCEPT ![b].destroyed = TRUE, ![b].errPending = TRUE]
  /\ UNCHANGED <<apps, service, googleClient, budget, sock, activeConnections, microtasks, out>>

\* recognizeStream.on('error') of the controller: events before the stop.
ErrorEvents(b) == << Plain("streaming-error", "Speech recognition error", b) >>

\* The 'error' event of a stream is emitted.  The listener of
\* createStreamingRecognition only logs; the controller's listener, once
\* attached, emits streaming-error and stops the socket's session.
ProviderError(b) ==
  /\ b \in DOMAIN streams
  /\ streams[b].errPending
  /\ LET s == streams[b].owner
         st == [streams EXCEPT ![b].errPending = FALSE]
     IN IF streams[b].attached
          THEN /\ streams' = StopStreams(st, activeConnections, s)
               /\ activeConnections' = StopConnections(activeConnections, s)
               /\ out' = [out EXCEPT ![s] =
                            @ \o ErrorEvents(b) \o StopEvents(activeConnections, s)]
          ELSE /\ streams' = st
               /\ UNCHANGED <<activeConnections, out>>
  /\ UNCHANGED <<apps, service, googleClient, budget, sock, microtasks, inputs>>

\* recognizeStream.on('end'): events before the stop.
EndEvents(b) == << Plain("streaming-ended", "", b) >>

\* recognizeStream.on('end')
ProviderEnd(b) ==
  /\ b \in DOMAIN streams
  /\ streams[b].attached
  /\ ~streams[b].destroyed
  /\ ~streams[b].ended
  /\ inputs < budget
  /\ inputs' = inputs + 1
  /\ LET s == streams[b].owner
         st == [streams EXCEPT ![b].ended = TRUE]
     IN /\ streams' = StopStreams(st, activeConnections, s)
        /\ activeConnections' = StopConnections(activeConnections, s)
        /\ out' = [out EXCEPT ![s] =
                     @ \o EndEvents(b) \o StopEvents(activeConnections, s)]
  /\ UNCHANGED <<apps, service, googleClient, budget, sock, microtasks>>

\* ------------------------------------------------------------- idle reaper
\* Mutant of Stale: an entry idle for exactly the timeout is stale.
Stale_AtTimeout(c) == c.idle >= TimeoutIntervals

\* `now - connection.lastActivity > timeout`, in sweep intervals.
Stale(c) == c.idle > TimeoutIntervals

\* The sockets the sweep removes, one interval after the previous sweep.
StaleSockets(ac) ==
  { s \in DOMAIN ac : Stale([ac[s] EXCEPT !.idle = @ + 1]) }

\* The sweep, effect on the registry: stale entries are deleted, the others
\* are one interval older.
SweepConnections(ac) ==
  [s \in DOMAIN ac \ StaleSockets(ac) |-> [ac[s] EXCEPT !.idle = @ + 1]]

\* The sweep, effect on the streams: end() on the stream of every deleted
\* entry unless it is destroyed.
SweepStreams(st, ac) ==
  [b \in DOMAIN st |->
     IF /\ \E s \in StaleSockets(ac) : ac[s].recognizeStream = b
        /\ ~st[b].destroyed
       THEN [st[b] EXCEPT !.endCalls = @ + 1]
       ELSE st[b]]

\* The setInterval callback of startCleanupTimer, one interval later.
CleanupTick ==
  /\ microtasks = << >>
  /\ activeConnections' = SweepConnections(activeConnections)
  /\ streams' = SweepStreams(streams, activeConnections)
  /\ UNCHANGED <<apps, service, googleClient, budget, sock, microtasks, out, inputs>>

\* ------------------------------------------------------------ specification
Next ==
  \/ \E s \in Sockets : Connect(s)
  \/ \E s \in Sockets : StartStreaming(s)
  \/ StartContinue
  \/ \E s \in Sockets : AudioData(s)
  \/ \E s \in Sockets : StopStreaming(s)
  \/ \E s \in Sockets : Disconnect(s)
  \/ \E b \in 1..MaxStreams, d \in DataPayloads : ProviderData(b, d)
  \/ \E ok \in BOOLEAN : MappingContinue(ok)
  \/ \E b \in 1..MaxStreams : ProviderFail(b)
  \/ \E b \in 1..MaxStreams : ProviderError(b)
  \/ \E b \in 1..MaxStreams : ProviderEnd(b)
  \/ CleanupTick

Spec == Init /\ [][Next]_vars

\* ------------------------------------------------------- a scripted session
\* The provider's results of the scripted session: interim, interim, final.
Script ==
  << [hasResults |-> TRUE, transcript |-> <<"h", "i">>, isFinal |-> FALSE],
     [hasResults |-> TRUE, transcript |-> <<"h", "i">>, isFinal |-> FALSE],
     [hasResults |-> TRUE, transcript |-> <<"h", "i">>, isFinal |-> TRUE] >>

\* The number of results stream b has delivered (each emits one update).
Delivered(b) ==
  Len(SelectSeq(out[streams[b].owner],
                LAMBDA e : e.ev = "transcript-update" /\ e.b = b))

\* The client starts its one session.
ScriptStart == streams = << >> /\ StartStreaming(1)

\* The provider delivers the next result of the script.
ScriptData(b) ==
  /\ b \in DOMAIN streams
  /\ Delivered(b) < Len(Script)
  /\ ProviderData(b, Script[Delivered(b) + 1])

\* The provider ends the stream after the last result of the script.
ScriptEnd(b) ==
  /\ b \in DOMAIN streams
  /\ Delivered(b) = Len(Script)
  /\ ProviderEnd(b)

\* One session whose provider events are the script followed by 'end'; the
\* client sends audio meanwhile.
NextScript ==
  \/ Connect(1)
  \/ ScriptStart
  \/ StartContinue
  \/ AudioData(1)
  \/ \E b \in 1..MaxStreams : ScriptData(b)
  \/ \E b \in 1..MaxStreams : ScriptEnd(b)
  \/ \E ok \in BOOLEAN : MappingContinue(ok)
  \/ CleanupTick

InitScript == InitWith({1}, ScriptInputs)

SpecScript == InitScript /\ [][NextScript]_vars

\* Two client connections, each with its own handlers (setupEventHandlers
\* runs once per socket), for a run of at most MultiInputs inputs.
InitMulti == InitWith({1, 2}, MultiInputs)

SpecMulti == InitMulti /\ [][Next]_vars

\* ------------------------------------------- mapping service, its steps
\* loadMappingData up to its second await: mapping.json was read and
\* parsed, mappingData is set, vocabulary.csv is being read.
LoadMappingFile(entries) ==
  /\ loadStep = "mapping"
  /\ mappingData' = Loaded(entries)
  /\ loadStep' = "vocabulary"
  /\ UNCHANGED <<apps, googleClient, sock, activeConnections, streams, microtasks,
                 out, inputs, budget, lastCall>>

\* loadMappingData, mapping.json could not be read or parsed: the catch
\* installs the fallback mapping.
LoadMappingFailed ==
  /\ loadStep = "mapping"
  /\ mappingData' = Loaded(FallbackMapping)
  /\ loadStep' = "done"
  /\ UNCHANGED <<apps, googleClient, sock, activeConnections, streams, microtasks,
                 out, inputs, budget, lastCall>>

\* loadMappingData after its second await: vocabulary.csv was read, or it
\* could not be and the catch replaces mappingData by the fallback mapping.
LoadVocabulary(ok) ==
  /\ loadStep = "vocabulary"
  /\ mappingData' = IF ok THEN mappingData ELSE Loaded(FallbackMapping)
  /\ loadStep' = "done"
  /\ UNCHANGED <<apps, googleClient, sock, activeConnections, streams, microtasks,
                 out, inputs, budget, lastCall>>

\* A call of mapTextToSigns: it runs to its return or throw without
\* awaiting anything and does not write to mappingData.  Calls leave
\* nothing behind for later calls, so a run is followed up to its first
\* call, which can come at any point of the load.
MapCall(input) ==
  /\ ~lastCall.called
  /\ lastCall' = [called |-> TRUE, input |-> input, data |-> mappingData,
                  result |-> MapTextToSigns(mappingData, input)]
  /\ UNCHANGED <<apps, googleClient, sock, activeConnections, streams, microtasks,
                 out, inputs, budget, mappingData, loadStep>>

NextMapping ==
  \/ \E entries \in MappingFiles : LoadMappingFile(entries)
  \/ LoadMappingFailed
  \/ \E ok \in BOOLEAN : LoadVocabulary(ok)
  \/ \E input \in TextInputs : MapCall(input)

\* The mapping service alone: no socket connects.
InitMapping == InitWith({}, 0)

SpecMapping == InitMapping /\ [][NextMapping]_vars

TypeOK ==
  /\ googleClient \in BOOLEAN
  /\ \A s \in Sockets : sock[s] \in {"absent", "new", "connected", "disconnected"}
  /\ DOMAIN activeConnections \subseteq Sockets
  /\ Len(streams) <= MaxStreams
  /\ budget \in Nat
  /\ inputs \in 0..budget
  /\ mappingData.isNull \in BOOLEAN
  /\ loadStep \in {"mapping", "vocabulary", "done"}
  /\ lastCall.called \in BOOLEAN

\* ------------------------------------------------------ reading the log
\* The events of the kinds `kinds` emitted to socket s, in order.
EventsOf(s, kinds) == SelectSeq(out[s], LAMBDA e : e.ev \in kinds)

\* The names of a sequence of events.
Names(es) == [i \in 1..Len(es) |-> es[i].ev]

\* What a step appended to a log.
Added(old, new) == SubSeq(new, Len(old) + 1, Len(new))

\* Stream b is held by some registry entry.
InRegistry(b) ==
  \E s \in DOMAIN activeConnections : activeConnections[s].recognizeStream = b

MappingOutcomes == {"signs-update", "mapping-error"}

\* ------------------------------------------------------------------ C1
\* C1 (stated for the streams the provider has not destroyed): every stream
\* that was registered for a session and is no longer in the registry has
\* had end() called exactly once, and no stream has end() called twice.
C1_EndExactlyOnce ==
  \A b \in DOMAIN streams :
    /\ streams[b].endCalls <= 1
    /\ (streams[b].attached /\ ~InRegistry(b) /\ ~streams[b].destroyed)
         => streams[b].endCalls = 1

\* ------------------------------------------------------------------ C2
\* C2: a start-streaming handled while the socket has a registry entry opens
\* no stream, leaves the registry as it is and emits an error event.
C2_DoubleStartRejected ==
  [][\A s \in Sockets :
       (s \in DOMAIN activeConnections /\ StartStreaming(s)) =>
         /\ streams' = streams
         /\ activeConnections' = activeConnections
         /\ Len(out'[s]) > Len(out[s])
         /\ out'[s][Len(out'[s])].ev \in {"error", "streaming-error"}]_vars

\* ------------------------------------------------------------------ C3
\* The session of socket s has seen the provider events interim, interim,
\* final (non-blank), providerEnded, the mapping resolved and every handler
\* has finished.
ScriptedRun(s) ==
  LET tus == EventsOf(s, {"transcript-update"}) IN
  /\ Len(tus) = 3
  /\ ~tus[1].isFinal /\ ~tus[2].isFinal /\ tus[3].isFinal
  /\ Trim(tus[3].transcript) # << >>
  /\ Len(EventsOf(s, {"streaming-ended"})) = 1
  /\ Len(EventsOf(s, {"signs-update"})) = 1
  /\ microtasks = << >>

\* C3 (under SpecScript, where the provider follows the script): after the
\* scripted run the client has seen transcript-update,
\* transcript-update, transcript-update, signs-update, streaming-ended, in
\* that order.
C3_ScriptedOrder ==
  \A s \in Sockets :
    ScriptedRun(s) =>
      Names(EventsOf(s, {"transcript-update", "signs-update", "streaming-ended"}))
        = << "transcript-update", "transcript-update", "transcript-update",
             "signs-update", "streaming-ended" >>

\* ------------------------------------------------------------------ C4
\* C4: no outcome of a mapping lookup of a session is emitted after the
\* streaming-stopped that closed that session.
C4_NoOutcomeAfterClose ==
  \A s \in Sockets :
    \A i, j \in 1..Len(out[s]) :
      (/\ i < j
       /\ out[s][i].ev = "streaming-stopped"
       /\ out[s][i].b # 0
       /\ out[s][j].ev \in MappingOutcomes)
        => out[s][j].b # out[s][i].b

\* ------------------------------------------------------------------ C5
\* The controller's 'error' listener of stream b runs in this step.
ErrorDelivered(b) ==
  /\ streams[b].errPending
  /\ streams[b].attached
  /\ ~streams'[b].errPending

\* The controller's 'end' listener of stream b runs in this step.
EndDelivered(b) == ~streams[b].ended /\ streams'[b].ended

\* C5: the step that delivers a provider error emits streaming-error, the
\* step that delivers a provider end emits streaming-ended; the same step
\* then emits streaming-stopped and leaves the socket without registry entry.
C5_TerminalThenClosed ==
  [][\A b \in DOMAIN streams :
       LET s == streams[b].owner
           added == Names(Added(out[s], out'[s]))
       IN /\ ErrorDelivered(b) =>
               /\ added = << "streaming-error", "streaming-stopped" >>
               /\ s \notin DOMAIN activeConnections'
          /\ EndDelivered(b) =>
               /\ added = << "streaming-ended", "streaming-stopped" >>
               /\ s \notin DOMAIN activeConnections']_vars

\* C5 witness: a session closed by a provider end and another one closed by
\* a provider error.
C5_Witness ==
  \E s \in Sockets :
    \E i, j \in 1..Len(out[s]) - 1 :
      /\ out[s][i].ev = "streaming-ended"
      /\ out[s][i + 1].ev = "streaming-stopped"
      /\ out[s][i + 1].b = out[s][i].b
      /\ out[s][j].ev = "streaming-error"
      /\ out[s][j].msg = "Speech recognition error"
      /\ out[s][j + 1].ev = "streaming-stopped"
      /\ out[s][j + 1].b = out[s][j].b
      /\ out[s][j].b # 0

\* ------------------------------------------------------------------ C6
\* C6: a stop-streaming or a disconnect of socket s calls end() once on the
\* registered stream if it is not destroyed, deletes the entry and emits
\* streaming-stopped; without an entry (a repeated stop included) registry
\* and streams stay as they are.  No other stream is touched.
C6_StopIdempotent ==
  [][\A s \in Sockets :
       (StopStreaming(s) \/ Disconnect(s)) =>
         LET b == Registered(activeConnections, s) IN
         /\ Names(Added(out[s], out'[s])) = << "streaming-stopped" >>
         /\ s \notin DOMAIN activeConnections'
         /\ \A t \in Sockets \ {s} :
              Registered(activeConnections', t) = Registered(activeConnections, t)
         /\ \A c \in DOMAIN streams :
              streams'[c] =
                IF c = b /\ ~streams[c].destroyed
                  THEN [streams[c] EXCEPT !.endCalls = streams[c].endCalls + 1]
                  ELSE streams[c]
         /\ b = 0 => (activeConnections' = activeConnections /\ streams' = streams)]_vars

\* C6 witness: a stop that closed a session, then a second stop with nothing
\* registered, and no end() beyond the first.
C6_Witness ==
  \E s \in Sockets :
    \E i \in 1..Len(out[s]) - 1 :
      /\ out[s][i].ev = "streaming-stopped"
      /\ out[s][i].b # 0
      /\ out[s][i + 1].ev = "streaming-stopped"
      /\ out[s][i + 1].b = 0
      /\ streams[out[s][i].b].endCalls = 1

\* ------------------------------------------------------------------ C7
\* The continuation of a start-streaming whose open was rejected runs now.
FailedStartContinues ==
  /\ microtasks # << >>
  /\ Head(microtasks).kind = "start"
  /\ Head(microtasks).stream = 0
  /\ microtasks' = Tail(microtasks)

\* C7: when the open fails, the handler emits streaming-error, never
\* streaming-started, the socket has no registry entry afterwards, and no
\* open is attempted again: no stream appears and no job is queued.
C7_OpenFailure ==
  [][FailedStartContinues =>
       LET s == Head(microtasks).sock IN
       /\ \E i \in 1..Len(Added(out[s], out'[s])) :
            Added(out[s], out'[s])[i].ev = "streaming-error"
       /\ EventsOf(s, {"streaming-started"}) = << >>
       /\ \A i \in 1..Len(out'[s]) : out'[s][i].ev # "streaming-started"
       /\ s \notin DOMAIN activeConnections'
       /\ streams' = streams
       /\ Len(microtasks') < Len(microtasks)]_vars

\* C7 witness: a failed start has been reported and nothing is registered.
C7_Witness ==
  /\ ~googleClient
  /\ \E s \in Sockets :
       /\ \E i \in 1..Len(out[s]) :
            /\ out[s][i].ev = "streaming-error"
            /\ out[s][i].msg = "Failed to start streaming recognition"
       /\ s \notin DOMAIN activeConnections
  /\ streams = << >>
  /\ microtasks = << >>

\* ------------------------------------------------------------------ C8
\* C8: audio-data for a registered session whose stream is destroyed writes
\* nothing, emits streaming-error and removes the registry entry.
C8_AudioOnEndedBridge ==
  [][\A s \in Sockets :
       (/\ AudioData(s)
        /\ s \in DOMAIN activeConnections
        /\ streams[activeConnections[s].recognizeStream].destroyed) =>
         LET b == activeConnections[s].recognizeStream IN
         /\ streams'[b].writes = streams[b].writes
         /\ \E i \in 1..Len(Added(out[s], out'[s])) :
              Added(out[s], out'[s])[i].ev = "streaming-error"
         /\ s \notin DOMAIN activeConnections']_vars

\* ------------------------------------------------------------------ C9
\* The lookup of data event id is suspended on the job queue.
MappingPending(id) ==
  \E k \in 1..Len(microtasks) :
    microtasks[k].kind = "map" /\ microtasks[k].id = id

\* C9: a final transcript-update with non-blank text is followed by exactly
\* one mapping outcome once its lookup is no longer pending (none before),
\* a signs-update carries that transcript; a blank final transcript starts
\* no lookup and gets no outcome; every outcome answers such an update.
C9_OneOutcomePerFinal ==
  \A s \in Sockets :
    /\ \A i \in 1..Len(out[s]) :
         LET e == out[s][i]
             outcomes == { j \in 1..Len(out[s]) :
                             out[s][j].ev \in MappingOutcomes /\ out[s][j].id = e.id }
         IN (e.ev = "transcript-update" /\ e.isFinal) =>
              IF Trim(e.transcript) # << >>
                THEN /\ \A j \in outcomes :
                          j > i /\ out[s][j].transcript = e.transcript
                     /\ IF MappingPending(e.id)
                          THEN outcomes = {}
                          ELSE Cardinality(outcomes) = 1
                ELSE outcomes = {} /\ ~MappingPending(e.id)
    /\ \A j \in 1..Len(out[s]) :
         out[s][j].ev \in MappingOutcomes =>
           \E i \in 1..(j - 1) :
             /\ out[s][i].ev = "transcript-update"
             /\ out[s][i].isFinal
             /\ out[s][i].id = out[s][j].id

\* C9 witness: a non-blank final answered by signs-update, another one
\* answered by mapping-error, and a blank final.
C9_Witness ==
  \E s \in Sockets :
    \E i, j, k, l, m \in 1..Len(out[s]) :
      /\ out[s][i].ev = "transcript-update" /\ out[s][i].isFinal
      /\ out[s][j].ev = "signs-update" /\ out[s][j].id = out[s][i].id /\ i < j
      /\ out[s][k].ev = "transcript-update" /\ out[s][k].isFinal
      /\ out[s][l].ev = "mapping-error" /\ out[s][l].id = out[s][k].id /\ k < l
      /\ out[s][m].ev = "transcript-update" /\ out[s][m].isFinal
      /\ Trim(out[s][m].transcript) = << >>
      /\ out[s][m].transcript # << >>

\* ----------------------------------------------------------------- C10
\* The ids of the transcript-updates of socket s, in log order.
UpdateIds(log) ==
  LET tus == SelectSeq(log, LAMBDA e : e.ev = "transcript-update") IN
  [i \in 1..Len(tus) |-> tus[i].id]

HasMappingError(s) == EventsOf(s, {"mapping-error"}) # << >>

\* C11: the step that reports a failed lookup appends mapping-error and
\* nothing else to the owner's log and leaves the registry and every stream
\* as they were (a registered session stays registered, its stream open);
\* on a socket that has been sent a mapping-error, audio-data for a
\* registered, live stream is still written to it and a provider result is
\* still answered by a transcript-update.
C11_MappingErrorNotFatal ==
  [][/\ MappingContinue(FALSE) =>
          LET s == Head(microtasks).sock IN
          /\ Names(Added(out[s], out'[s])) = << "mapping-error" >>
          /\ activeConnections' = activeConnections
          /\ streams' = streams
     /\ \A s \in Sockets :
          (/\ AudioData(s)
           /\ HasMappingError(s)
           /\ s \in DOMAIN activeConnections
           /\ ~streams[activeConnections[s].recognizeStream].destroyed) =>
            LET b == activeConnections[s].recognizeStream IN
            /\ streams'[b].writes = streams[b].writes + 1
            /\ s \in DOMAIN activeConnections'
            /\ out'[s] = out[s]
     /\ \A b \in DOMAIN streams, d \in DataPayloads :
          (/\ ProviderData(b, d)
           /\ HasMappingError(streams[b].owner)
           /\ d.hasResults) =>
            LET s == streams[b].owner IN
            Names(Added(out[s], out'[s])) = << "transcript-update" >>
    ]_vars

\* A lookup failed, and afterwards a chunk was written to the still
\* registered stream and a result was answered by a transcript-update.
C11_Witness ==
  \E s \in Sockets :
    /\ Names(out[s]) = << "streaming-started", "transcript-update",
                          "mapping-error", "transcript-update" >>
    /\ s \in DOMAIN activeConnections
    /\ LET b == activeConnections[s].recognizeStream IN
         /\ out[s][3].b = b
         /\ streams[b].writes = 1
         /\ ~streams[b].destroyed
         /\ streams[b].endCalls = 0

\* ------------------------------------------------------------------ C12
\* Socket s has a lookup pending.
LookupPending(s) ==
  \E k \in 1..Len(microtasks) :
    microtasks[k].kind = "map" /\ microtasks[k].sock = s

\* C12: while a lookup of a socket is pending, the step that delivers a
\* provider result to that socket emits its transcript-update at once and
\* keeps every pending lookup pending, and an audio-data message for the
\* registered live stream is written to it at once.
C12_NoBlockingWhilePending ==
  [][/\ \A b \in DOMAIN streams, d \in DataPayloads :
          (/\ ProviderData(b, d)
           /\ LookupPending(streams[b].owner)
           /\ d.hasResults) =>
            LET s == streams[b].owner
                added == Added(out[s], out'[s])
            IN /\ Names(added) = << "transcript-update" >>
               /\ added[1].id = inputs + 1
               /\ added[1].transcript = d.transcript
               /\ SubSeq(microtasks', 1, Len(microtasks)) = microtasks
     /\ \A s \in Sockets :
          (/\ AudioData(s)
           /\ LookupPending(s)
           /\ s \in DOMAIN activeConnections
           /\ ~streams[activeConnections[s].recognizeStream].destroyed) =>
            LET b == activeConnections[s].recognizeStream IN
            /\ streams'[b].writes = streams[b].writes + 1
            /\ microtasks' = microtasks
    ]_vars

\* The lookup of the final result 2 is pending while the interim result 3
\* has been answered and a chunk has been written.
C12_Witness ==
  \E s \in Sockets :
    /\ Names(out[s]) = << "streaming-started", "transcript-update",
                          "transcript-update" >>
    /\ out[s][2].id = 2
    /\ out[s][3].id = 3
    /\ MappingPending(2)
    /\ s \in DOMAIN activeConnections
    /\ streams[activeConnections[s].recognizeStream].writes = 1

\* ------------------------------------------------------------------ C13
\* C13: on every socket the mapping outcomes appear in the order of the
\* final results they answer: an outcome is never preceded by the outcome
\* of a later result, and when it is emitted every earlier non-blank final
\* result of that socket already has its outcome.
C13_OutcomesInOrder ==
  \A s \in Sockets :
    \A j \in 1..Len(out[s]) :
      out[s][j].ev \in MappingOutcomes =>
        /\ \A i \in 1..(j - 1) :
             out[s][i].ev \in MappingOutcomes => out[s][i].id < out[s][j].id
        /\ \A k \in 1..Len(out[s]) :
             (/\ out[s][k].ev = "transcript-update"
              /\ out[s][k].isFinal
              /\ Trim(out[s][k].transcript) # << >>
              /\ out[s][k].id < out[s][j].id) =>
               \E i \in 1..(j - 1) :
                 /\ out[s][i].ev \in MappingOutcomes
                 /\ out[s][i].id = out[s][k].id

\* Two final results of one stream were delivered back to back and both
\* outcomes have been emitted, the first a failure.
C13_Witness ==
  \E s \in Sockets :
    /\ Names(out[s]) = << "streaming-started", "transcript-update",
                          "transcript-update", "mapping-error",
                          "signs-update" >>
    /\ out[s][4].id = out[s][2].id
    /\ out[s][5].id = out[s][3].id
    /\ out[s][4].b = out[s][5].b

\* ------------------------------------------------------------------ C17
\* C17: audio-data on a socket without a registry entry opens no stream,
\* registers nothing, suspends nothing, and appends exactly one event to the
\* socket's log: error, "No active streaming session".
C17_AudioWithoutSession ==
  [][\A s \in Sockets :
       (AudioData(s) /\ s \notin DOMAIN activeConnections) =>
         /\ streams' = streams
         /\ activeConnections' = activeConnections
         /\ microtasks' = microtasks
         /\ LET added == Added(out[s], out'[s]) IN
              /\ Names(added) = << "error" >>
              /\ added[1].msg = "No active streaming session"
    ]_vars

\* audio-data arrived twice after the session was stopped: no stream was
\* opened for it and nothing was written.
C17_Witness ==
  \E s \in Sockets :
    /\ Names(out[s]) = << "streaming-started", "streaming-stopped",
                          "error", "error" >>
    /\ out[s][3].msg = "No active streaming session"
    /\ s \notin DOMAIN activeConnections
    /\ Len(streams) = 1
    /\ streams[1].writes = 0

ClientMessage(s) ==
  StartStreaming(s) \/ AudioData(s) \/ StopStreaming(s) \/ Disconnect(s)

\* Socket s has a start-streaming suspended at its await.
StartPending(q, s) ==
  \E k \in 1..Len(q) : q[k].kind = "start" /\ q[k].sock = s

C15_ReapedLikeStop ==
  [][CleanupTick =>
       \A s \in DOMAIN activeConnections :
         s \notin DOMAIN activeConnections' =>
           Names(Added(out[s], out'[s])) = << "streaming-stopped" >>
    ]_vars

\* A live session has been reaped and its socket is still connected.
C15_Witness ==
  \E s \in Sockets :
    /\ Names(out[s]) = << "streaming-started" >>
    /\ s \notin DOMAIN activeConnections
    /\ sock[s] = "connected"
    /\ Len(streams) = 1
    /\ streams[1].endCalls = 1
    /\ streams[1].writes = 0
    /\ inputs = 1

\* ------------------------------------------------------------------ C16
\* A step of the session of socket s: a message or the disconnect of the
\* socket, an event of a stream the socket opened, or the continuation of a
\* handler that was suspended for it (a failed lookup included).
SessionStep(s) ==
  \/ ClientMessage(s)
  \/ \E b \in DOMAIN streams :
       /\ streams[b].owner = s
       /\ \/ \E d \in DataPayloads : ProviderData(b, d)
          \/ ProviderFail(b)
          \/ ProviderError(b)
          \/ ProviderEnd(b)
  \/ /\ microtasks # << >>
     /\ Head(microtasks).sock = s
     /\ \/ StartContinue
        \/ \E ok \in BOOLEAN : MappingContinue(ok)

C18_NeverEmpty ==
  (lastCall.called /\ ~lastCall.result.threw) =>
    /\ Len(lastCall.result.signs) >= 1
    /\ Len(lastCall.result.captions) >= 1

\* ------------------------------------------------------------------ C19
\* The file names of a list of signs.
Filenames(signs) == [i \in 1..Len(signs) |-> signs[i].filename]

\* C19: a call whose normalized text is a key of the dictionary resolves
\* with confidence 1.0 (10 tenths over 1), the key as the only caption and
\* matched phrase, and one sign per video of the key's list, in the list's
\* order, each with the CDN url of its file; no call changes mappingData.
C19_ExactMatch ==
  [][(lastCall'.called /\ ~lastCall.called) =>
       LET input == lastCall'.input IN
         /\ mappingData' = mappingData
         /\ lastCall'.data = mappingData
         /\ \A i \in 1..Len(mappingData.entries) :
              (/\ input.isString
               /\ ~mappingData.isNull
               /\ NormalizeText(input.chars) = mappingData.entries[i].key) =>
                LET e == mappingData.entries[i]
                    r == lastCall'.result
                IN /\ ~r.threw
                   /\ r.confidence = [tenths |-> 10, words |-> 1]
                   /\ r.captions = << e.key >>
                   /\ r.matchedPhrases = << e.key >>
                   /\ Filenames(r.signs) = e.videos
                   /\ \A k \in 1..Len(r.signs) :
                        r.signs[k].url =
                          << "https://your-cdn-domain.com/videos/", e.videos[k] >>
    ]_vars

\* "A b" was mapped with a dictionary that has the key "a b": the text
\* was normalized to the key and the key's two videos came back in order.
C19_Witness ==
  /\ lastCall.called
  /\ lastCall.input.chars = << "A", " ", "b" >>
  /\ ~lastCall.data.isNull
  /\ lastCall.result.captions = << << "a", " ", "b" >> >>
  /\ Filenames(lastCall.result.signs) = << "A-B-1.mp4", "A-B-2.mp4" >>
  /\ lastCall.result.confidence.tenths = 10

\* ------------------------------------------------------------------ C20
\* No key of the dictionary occurs in the text.
NoKeyIn(entries, text) ==
  \A i \in 1..Len(entries) : ~Includes(text, entries[i].key)

\* C20: a call made with a loaded dictionary and a non-empty string whose
\* normalized text contains no key of the dictionary resolves with exactly
\* the fallback: the NOT-UNDERSTAND sign, the fallback caption, confidence
\* 0.1 (1 tenth over 1).
C20_FallbackWhenNoMatch ==
  (/\ lastCall.called
   /\ lastCall.input.isString
   /\ lastCall.input.chars # << >>
   /\ ~lastCall.data.isNull
   /\ NoKeyIn(lastCall.data.entries, NormalizeText(lastCall.input.chars))) =>
    /\ ~lastCall.result.threw
    /\ Filenames(lastCall.result.signs) = << "NOT-UNDERSTAND.mp4" >>
    /\ lastCall.result.captions = << << "I don't understand" >> >>
    /\ lastCall.result.confidence = [tenths |-> 1, words |-> 1]

\* "b a" was mapped with a dictionary whose only key is "ab" and was
\* answered with the fallback.
C20_Witness ==
  /\ lastCall.called
  /\ lastCall.input.chars = << "b", " ", "a" >>
  /\ lastCall.data = Loaded(<< Entry(<<"a", "b">>, <<"AB.mp4">>) >>)
  /\ lastCall.result.confidence = [tenths |-> 1, words |-> 1]
  /\ Filenames(lastCall.result.signs) = << "NOT-UNDERSTAND.mp4" >>

\* ------------------------------------------------------------------ C21
\* C21: normalizing the normalized text of a call changes nothing, and the
\* normalized text neither starts nor ends with a space.
C21_NormalizeIdempotent ==
  (lastCall.called /\ lastCall.input.isString) =>
    LET n == NormalizeText(lastCall.input.chars) IN
    /\ NormalizeText(n) = n
    /\ Trim(n) = n

\* ------------------------------------------------------------------ C22
\* C22: the confidence of every result is at least 0 and at most 1 (the
\* tenths collected do not exceed 10 per word counted).
C22_ConfidenceInUnitInterval ==
  (lastCall.called /\ ~lastCall.result.threw) =>
    LET c == lastCall.result.confidence IN
    /\ c.words >= 1
    /\ c.tenths >= 0
    /\ c.tenths <= 10 * c.words

\* ------------------------------------------------------------------ C23
\* C23: a call with the empty string or a string of spaces only, made with
\* a loaded dictionary, resolves: its normalized text is empty and the
\* result is the fallback entry.
C23_BlankTextIsFallback ==
  (/\ lastCall.called
   /\ lastCall.input.isString
   /\ Trim(lastCall.input.chars) = << >>
   /\ ~lastCall.data.isNull) =>
    /\ NormalizeText(lastCall.input.chars) = << >>
    /\ ~lastCall.result.threw
    /\ Filenames(lastCall.result.signs) = << "NOT-UNDERSTAND.mp4" >>
    /\ lastCall.result.captions = << << "I don't understand" >> >>

\* Two spaces were mapped with a loaded dictionary and answered with the
\* fallback.
C23_Witness ==
  /\ lastCall.called
  /\ lastCall.input = [isString |-> TRUE, chars |-> << " ", " " >>]
  /\ ~lastCall.data.isNull
  /\ ~lastCall.result.threw
  /\ Filenames(lastCall.result.signs) = << "NOT-UNDERSTAND.mp4" >>

\* ------------------------------------------------------------------ C27
\* Some key of the dictionary occurs in the text.
SomeKeyIn(entries, text) ==
  \E i \in 1..Len(entries) : Includes(text, entries[i].key)

\* The text is a key of the dictionary.
IsKey(entries, text) == \E i \in 1..Len(entries) : entries[i].key = text

\* The number of words of a text.
WordCount(text) == Len(SelectSeq(Split(text), LAMBDA w : Len(w) > 0))

\* C27: a call with a loaded dictionary whose normalized text is not a key
\* but contains one resolves without the fallback entry, and its
\* confidence is 1.0 per phrase match plus 0.8 per word match, for as many
\* matches as are reported, over the number of words of the normalized
\* text.
C27_PartialConfidence ==
  (/\ lastCall.called
   /\ lastCall.input.isString
   /\ ~lastCall.data.isNull
   /\ ~IsKey(lastCall.data.entries, NormalizeText(lastCall.input.chars))
   /\ SomeKeyIn(lastCall.data.entries, NormalizeText(lastCall.input.chars))) =>
    LET r == lastCall.result
        n == Len(r.matchedPhrases)
    IN /\ ~r.threw
       /\ "NOT-UNDERSTAND.mp4" \notin { r.signs[k].filename : k \in 1..Len(r.signs) }
       /\ << "fallback" >> \notin { r.matchedPhrases[k] : k \in 1..n }
       /\ n >= 1
       /\ r.confidence.words = WordCount(NormalizeText(lastCall.input.chars))
       /\ \E p \in 0..n : r.confidence.tenths = 10 * p + 8 * (n - p)

\* "b a" was mapped with a dictionary whose only key is "b": the videos of
\* "b" came back with confidence 1.0 / 2.
C27_Witness ==
  /\ lastCall.called
  /\ lastCall.input.chars = << "b", " ", "a" >>
  /\ lastCall.data = Loaded(<< Entry(<<"b">>, <<"B.mp4">>) >>)
  /\ Filenames(lastCall.result.signs) = << "B.mp4" >>
  /\ lastCall.result.confidence = [tenths |-> 10, words |-> 2]

\* ------------------------------------------------------------------ C28
\* The matches can be laid out in the text: each is a contiguous occurrence
\* of its phrase and no two share a character.
DisjointOccurrences(text, phrases) ==
  \E at \in [1..Len(phrases) -> 1..Len(text)] :
    /\ \A i \in 1..Len(phrases) :
         /\ at[i] + Len(phrases[i]) - 1 <= Len(text)
         /\ SubSeq(text, at[i], at[i] + Len(phrases[i]) - 1) = phrases[i]
    /\ \A i, j \in 1..Len(phrases) :
         i < j =>
           \/ at[i] + Len(phrases[i]) - 1 < at[j]
           \/ at[j] + Len(phrases[j]) - 1 < at[i]

\* C28: the matches a call reports (the fallback aside) are contiguous
\* occurrences of their keys in the normalized text that share no
\* character.
C28_MatchesAreOccurrences ==
  (/\ lastCall.called
   /\ ~lastCall.result.threw
   /\ ~lastCall.data.isNull
   /\ lastCall.result.matchedPhrases # << << "fallback" >> >>) =>
    DisjointOccurrences(NormalizeText(lastCall.input.chars),
                        lastCall.result.matchedPhrases)

\* "aba" was mapped with the keys "a", "ab" and "b": "ab" was matched
\* first and the "a" that is left second.
C28_Witness ==
  /\ lastCall.called
  /\ lastCall.input.chars = << "a", "b", "a" >>
  /\ lastCall.result.matchedPhrases = << << "a", "b" >>, << "a" >> >>
  /\ Filenames(lastCall.result.signs) = << "AB.mp4", "A.mp4" >>

\* ------------------------------------------------------------------ C25
\* C25: the 'end' or 'error' event of a stream whose socket has meanwhile
\* registered another stream leaves the registry as it is, calls end() on
\* no stream and emits no streaming-stopped.
C25_LateEventOfOldStream ==
  [][\A b \in DOMAIN streams :
       (/\ ProviderEnd(b) \/ ProviderError(b)
        /\ Registered(activeConnections, streams[b].owner) \notin {0, b}) =>
         LET s == streams[b].owner IN
         /\ activeConnections' = activeConnections
         /\ \A c \in DOMAIN streams : streams'[c].endCalls = streams[c].endCalls
         /\ EventsOf(s, {"streaming-stopped"})' = EventsOf(s, {"streaming-stopped"})
    ]_vars

\* A session was stopped, a second one started on the socket, and the
\* 'end' of the first stream has torn the second one down.
C25_Witness ==
  \E s \in Sockets :
    /\ Names(out[s]) = << "streaming-started", "streaming-stopped",
                          "streaming-started", "streaming-ended",
                          "streaming-stopped" >>
    /\ out[s][4].b = 1
    /\ out[s][5].b = 2
    /\ s \notin DOMAIN activeConnections
    /\ streams[2].endCalls = 1
    /\ ~streams[2].ended

\* ------------------------------------------------------------------ C26
\* Events that belong to a running session.
SessionEvent(e) ==
  \/ e.ev \in {"transcript-update", "streaming-ended", "streaming-stopped"}
  \/ e.ev = "streaming-error" /\ e.b # 0

\* C26: every streaming-stopped in a socket's log closes a session that was
\* started (a streaming-started precedes it with no streaming-stopped in
\* between), and no session event follows it before the next
\* streaming-started.
C26_StoppedIsLast ==
  \A s \in Sockets :
    \A i \in 1..Len(out[s]) :
      out[s][i].ev = "streaming-stopped" =>
        /\ \E k \in 1..(i - 1) :
             /\ out[s][k].ev = "streaming-started"
             /\ \A m \in (k + 1)..(i - 1) : out[s][m].ev # "streaming-stopped"
        /\ \A j \in (i + 1)..Len(out[s]) :
             SessionEvent(out[s][j]) =>
               \E k \in (i + 1)..(j - 1) : out[s][k].ev = "streaming-started"

\* A stopped session was sent a transcript-update afterwards.
C26_Witness ==
  \E s \in Sockets :
    /\ Names(out[s]) = << "streaming-started", "streaming-stopped",
                          "transcript-update" >>
    /\ out[s][3].b = out[s][2].b

\* ---------------------------------------------- POST /api/speech-to-signs
\* What a provider may answer for the submitted audio, before the trim.
ProviderTexts ==
  { << "a" >>, << "a", " ", "b" >>, << " ", "b" >>, << "c" >>, << " " >> }

\* The ways a request can carry its audio.
AudioFields == {"file", "base64", "none"}

\* The route's catch: res.status(500).json({error, message}).
ConversionFailed(message) ==
  [NoResponse EXCEPT !.status = 500,
                     !.error = "Speech to signs conversion failed",
                     !.message = message]

\* The route up to `await speechService.transcribeAudio(audioData)`: a
\* request without req.file and without req.body.audio is answered 400.
Post(audio) ==
  /\ request.step = "idle"
  /\ request' =
       IF audio = "none"
         THEN [request EXCEPT !.step = "done",
                 !.response = [NoResponse EXCEPT !.status = 400,
                                 !.error = "No audio data provided"]]
         ELSE [request EXCEPT !.step = "transcribing",
                 !.service = IF googleClient THEN "google"
                             ELSE IF openaiClient THEN "openai" ELSE "none"]
  /\ UNCHANGED <<service, googleClient, openaiClient, recorder, player, sock,
                 activeConnections, streams, microtasks, out, inputs, budget>>

\* transcribeAudio rejects: no client is configured, or the provider call
\* failed; the route's catch answers 500.
TranscriptionFailed(message) ==
  /\ request.step = "transcribing"
  /\ (request.service = "none") <=>
       (message = "No speech recognition service configured")
  /\ request' = [request EXCEPT !.step = "done",
                                !.response = ConversionFailed(message)]
  /\ UNCHANGED <<service, googleClient, openaiClient, recorder, player, sock,
                 activeConnections, streams, microtasks, out, inputs, budget>>

\* What transcribeAudio resolves with for the recognized text: the object
\* {transcript, confidence, language, service} of transcribeWithGoogle, or
\* the string of transcribeWithOpenAI.
Transcription(provider, text) ==
  [isString |-> provider = "openai", text |-> text]

\* The value as mapTextToSigns sees its argument.
AsArgument(value) ==
  IF value.isString
    THEN [isString |-> TRUE, chars |-> value.text]
    ELSE [isString |-> FALSE, chars |-> << >>]

\* The provider answered with `raw`.  Blank text makes the transcribe
\* method throw; otherwise transcribeAudio resolves, the route resumes and
\* calls mapTextToSigns(transcript), which runs to its return or throw.
ProviderAnswered(raw) ==
  /\ request.step = "transcribing"
  /\ request.service # "none"
  /\ IF Trim(raw) = << >>
       THEN /\ request' = [request EXCEPT !.step = "done",
                             !.response = ConversionFailed("No speech detected")]
            /\ UNCHANGED lastCall
       ELSE LET value == Transcription(request.service, Trim(raw)) IN
            /\ request' = [request EXCEPT !.step = "mapping",
                             !.transcribed = TRUE, !.value = value]
            /\ lastCall' = [called |-> TRUE, input |-> AsArgument(value),
                            data |-> mappingData,
                            result |-> MapTextToSigns(mappingData,
                                                      AsArgument(value))]
  /\ UNCHANGED <<mappingData, loadStep, googleClient, openaiClient, recorder,
                 player, sock, activeConnections, streams, microtasks, out,
                 inputs, budget>>

\* The route after `await mappingService.mapTextToSigns(transcript)`:
\* res.json with the transcript and the mapping, or the catch.
MappingSettled ==
  /\ request.step = "mapping"
  /\ request' =
       [request EXCEPT !.step = "done",
          !.response =
            IF lastCall.result.threw
              THEN ConversionFailed(lastCall.result.error)
              ELSE [NoResponse EXCEPT !.status = 200,
                      !.transcript = request.value,
                      !.mappedSigns = lastCall.result.signs,
                      !.captions = lastCall.result.captions,
                      !.confidence = lastCall.result.confidence]]
  /\ UNCHANGED <<service, googleClient, openaiClient, recorder, player, sock,
                 activeConnections, streams, microtasks, out, inputs, budget>>

NextHttp ==
  \/ \E entries \in MappingFiles : LoadMappingFile(entries)
  \/ LoadMappingFailed
  \/ \E ok \in BOOLEAN : LoadVocabulary(ok)
  \/ \E audio \in AudioFields : Post(audio)
  \/ \E message \in {"No speech recognition service configured",
                     "provider error"} : TranscriptionFailed(message)
  \/ \E raw \in ProviderTexts : ProviderAnswered(raw)
  \/ MappingSettled

\* The server with any combination of configured providers and one
\* request; no socket connects.
InitHttp ==
  /\ googleClient \in BOOLEAN
  /\ openaiClient \in BOOLEAN
  /\ sock = [s \in Sockets |-> "absent"]
  /\ activeConnections = << >>
  /\ streams = << >>
  /\ microtasks = << >>
  /\ out = [s \in Sockets |-> << >>]
  /\ inputs = 0
  /\ budget = 0
  /\ mappingData = NullData
  /\ loadStep = "mapping"
  /\ lastCall = NoCall
  /\ request = NoRequest
  /\ recorder = RecorderAtMount
  /\ player = PlayerAtMount

SpecHttp == InitHttp /\ [][NextHttp]_vars

\* ------------------------------------------------------------------ C24
\* C24: a request whose transcription succeeded is answered 200 with the
\* transcript as text and with the mapping of that text (signs, captions,
\* confidence) against the dictionary of the moment, whichever provider
\* produced the transcript; it is never answered with an error.
C24_TranscriptIsMapped ==
  (request.step = "done" /\ request.transcribed) =>
    LET text == request.value.text
        mapping == MapTextToSigns(lastCall.data,
                                  [isString |-> TRUE, chars |-> text]) IN
    /\ request.response.status = 200
    /\ request.response.transcript = [isString |-> TRUE, text |-> text]
    /\ ~mapping.threw
    /\ request.response.mappedSigns = mapping.signs
    /\ request.response.captions = mapping.captions
    /\ request.response.confidence = mapping.confidence

\* Google transcribed the audio and the request was answered.
C24_Witness ==
  /\ request.step = "done"
  /\ request.transcribed
  /\ request.service = "google"
  /\ request.value.text = << "a", " ", "b" >>
  /\ ~lastCall.data.isNull

\* ------------------------------------------------ StreamingAudioRecorder
\* recorder.phase is where handleToggleRecording is: "idle" (not running),
\* "permission" (awaiting requestPermission), "starting" (awaiting
\* startStreaming), "polling" (awaiting the confirmation promise).
\* recorder.seen and recorder.seenConnected are isStreaming and isConnected
\* as the running handler's closure holds them: the values of the render
\* that created the callback.  recorder.session tells whether the server
\* holds a streaming session for the socket, recorder.outcome how the last
\* toggle-on ended.

\* const maxAttempts = 30
MaxAttempts == 30

\* The frame of the front-end recorder's steps.
RecorderFrame ==
  UNCHANGED <<service, googleClient, openaiClient, request, player, sock,
              activeConnections, streams, microtasks, out, inputs, budget>>

\* handleToggleRecording from `await startStreaming()` to the next
\* suspension: startStreaming throws when the closure's isConnected is
\* false, returns at once when the closure's isStreaming is true, and
\* otherwise emits start-streaming and waits for the server.
CallStartStreaming(r) ==
  IF ~r.seenConnected
    THEN [r EXCEPT !.phase = "idle", !.outcome = "WebSocket not connected"]
    ELSE IF r.seen
      THEN [r EXCEPT !.phase = "polling", !.attempts = 0]
      ELSE [r EXCEPT !.phase = "starting"]

\* socket.on('connect')
SocketConnect ==
  /\ ~recorder.isConnected
  /\ recorder' = [recorder EXCEPT !.isConnected = TRUE]
  /\ RecorderFrame

\* socket.on('disconnect'); the server drops the socket's session.
SocketDisconnect ==
  /\ recorder.isConnected
  /\ recorder' = [recorder EXCEPT !.isConnected = FALSE,
                                  !.isStreaming = FALSE, !.session = FALSE]
  /\ RecorderFrame

\* handleToggleRecording, the branch taken while not recording, up to its
\* first suspension.
ToggleOn ==
  /\ recorder.phase = "idle"
  /\ ~recorder.isRecording
  /\ LET r == [recorder EXCEPT !.seen = recorder.isStreaming,
                               !.seenConnected = recorder.isConnected,
                               !.outcome = "", !.attempts = 0] IN
     recorder' = IF r.hasPermission # "granted"
                   THEN [r EXCEPT !.phase = "permission"]
                   ELSE CallStartStreaming(r)
  /\ RecorderFrame

\* requestPermission settles.
PermissionSettled(granted) ==
  /\ recorder.phase = "permission"
  /\ recorder' =
       IF granted
         THEN CallStartStreaming([recorder EXCEPT !.hasPermission = "granted"])
         ELSE [recorder EXCEPT !.hasPermission = "denied", !.phase = "idle",
                 !.outcome = "Microphone permission is required"]
  /\ RecorderFrame

\* The server answers start-streaming with streaming-started: the hook's
\* listener sets isStreaming, startStreaming resolves and the handler
\* starts the confirmation poll.
StreamingStarted ==
  /\ recorder.phase = "starting"
  /\ recorder.isConnected
  /\ recorder' = [recorder EXCEPT !.isStreaming = TRUE, !.session = TRUE,
                                  !.phase = "polling", !.attempts = 0]
  /\ RecorderFrame

\* The server answers start-streaming with streaming-error: startStreaming
\* rejects and the handler's catch reports the message.
StreamingRefused ==
  /\ recorder.phase = "starting"
  /\ recorder.isConnected
  /\ recorder' = [recorder EXCEPT !.isStreaming = FALSE, !.phase = "idle",
                    !.outcome = "Failed to start streaming recognition"]
  /\ RecorderFrame

\* startStreaming's 10 s timer fires first.
StartTimeout ==
  /\ recorder.phase = "starting"
  /\ recorder' = [recorder EXCEPT !.phase = "idle",
                                  !.outcome = "Streaming start timeout"]
  /\ RecorderFrame

\* What the poll's `if (isStreaming)` reads: the closure's value.
Confirmed(r) == r.seen

\* One tick of the confirmation poll; on confirmation the handler goes on
\* to startRecording, at the last attempt the promise rejects.
PollTick ==
  /\ recorder.phase = "polling"
  /\ recorder' =
       IF Confirmed(recorder)
         THEN [recorder EXCEPT !.attempts = @ + 1, !.phase = "idle",
                 !.isRecording = TRUE, !.outcome = "recording"]
         ELSE IF recorder.attempts + 1 >= MaxAttempts
           THEN [recorder EXCEPT !.attempts = @ + 1, !.phase = "idle",
                   !.outcome = "Streaming confirmation timeout"]
           ELSE [recorder EXCEPT !.attempts = @ + 1]
  /\ RecorderFrame

\* handleToggleRecording, the branch taken while recording: stopRecording,
\* and stop-streaming is emitted when isStreaming; the server closes the
\* session and its streaming-stopped is still to arrive.
ToggleOff ==
  /\ recorder.phase = "idle"
  /\ recorder.isRecording
  /\ recorder' = [recorder EXCEPT !.isRecording = FALSE,
                    !.session = IF recorder.isStreaming /\ recorder.isConnected
                                  THEN FALSE ELSE @]
  /\ RecorderFrame

\* The server ends the session by itself (provider end or error, reaper).
SessionEnded ==
  /\ recorder.session
  /\ recorder' = [recorder EXCEPT !.session = FALSE]
  /\ RecorderFrame

\* streaming-stopped, streaming-ended or streaming-error of a closed
\* session arrives: the hook's listener clears isStreaming.
StreamingStopped ==
  /\ recorder.isConnected
  /\ recorder.isStreaming
  /\ ~recorder.session
  /\ recorder' = [recorder EXCEPT !.isStreaming = FALSE]
  /\ RecorderFrame

NextRecorder ==
  \/ SocketConnect
  \/ SocketDisconnect
  \/ ToggleOn
  \/ \E granted \in BOOLEAN : PermissionSettled(granted)
  \/ StreamingStarted
  \/ StreamingRefused
  \/ StartTimeout
  \/ PollTick
  \/ ToggleOff
  \/ SessionEnded
  \/ StreamingStopped

\* The recorder component alone, from its mount.
InitRecorder == InitWith({}, 0)

SpecRecorder == InitRecorder /\ [][NextRecorder]_vars

\* ------------------------------------------------------------------ C29
\* C29: a toggle-on begun while not streaming never ends in 'Streaming
\* confirmation timeout' while the server session it opened is still open,
\* the hook still reports streaming and nothing is being recorded.
C29_ConfirmedToggleRecords ==
  ~(/\ recorder.outcome = "Streaming confirmation timeout"
    /\ ~recorder.seen
    /\ recorder.session
    /\ recorder.isStreaming
    /\ ~recorder.isRecording)

\* The toggle-on's startStreaming resolved, the session stayed open during
\* all the attempts of the poll, and the handler ended with the timeout.
C29_Witness ==
  /\ recorder.phase = "idle"
  /\ recorder.attempts = MaxAttempts
  /\ recorder.outcome = "Streaming confirmation timeout"
  /\ recorder.session
  /\ recorder.isStreaming

\* ------------------------------------------------------------ VideoPlayer
\* player is the component at a render: the length of its signVideos prop
\* and its state.  player.effect tells that the effect on [signVideos] has
\* still to run after this render, player.threw that the render threw.

\* The longest list of clips.
MaxVideos == 3

\* How far into a clip a timeupdate event can be, in percent.
VideoProgress == {0, 50, 100}

\* The frame of the player's steps.
PlayerFrame ==
  UNCHANGED <<service, googleClient, openaiClient, request, recorder, sock,
              activeConnections, streams, microtasks, out, inputs, budget>>

\* The <video> element and the controls are rendered and no effect is
\* waiting: an event handler of this render can run.
Interactive ==
  /\ ~player.threw
  /\ ~player.effect
  /\ player.signVideos > 0

\* The render's `signVideos[currentVideoIndex]` is undefined: reading its
\* url throws a TypeError.
RenderThrows(length, index) == length > 0 /\ index >= length

\* The parent renders the player with a new list of `length` clips: the
\* render runs with the state as it is, the effect runs after it.
PropsChange(length) ==
  /\ ~player.threw
  /\ ~player.effect
  /\ player' =
       IF RenderThrows(length, player.currentVideoIndex)
         THEN [player EXCEPT !.signVideos = length, !.threw = TRUE]
         ELSE [player EXCEPT !.signVideos = length, !.effect = TRUE]
  /\ PlayerFrame

\* useEffect(..., [signVideos])
EffectRun ==
  /\ ~player.threw
  /\ player.effect
  /\ player' =
       IF player.signVideos > 0
         THEN [player EXCEPT !.effect = FALSE, !.currentVideoIndex = 0,
                             !.progress = Percent(0, 1)]
         ELSE [player EXCEPT !.effect = FALSE]
  /\ PlayerFrame

\* handleVideoEnd
HandleVideoEnd ==
  /\ Interactive
  /\ player' =
       IF player.currentVideoIndex < player.signVideos - 1
         THEN [player EXCEPT !.currentVideoIndex = @ + 1]
         ELSE [player EXCEPT !.isPlaying = FALSE,
                             !.progress = Percent(100, 1)]
  /\ PlayerFrame

\* handleTimeUpdate, the clip being at videoProgress percent.
HandleTimeUpdate(videoProgress) ==
  /\ Interactive
  /\ player' = [player EXCEPT !.progress =
                  Percent(player.currentVideoIndex * 100 + videoProgress,
                          player.signVideos)]
  /\ PlayerFrame

\* playSequence
PlaySequence ==
  /\ Interactive
  /\ player' = [player EXCEPT !.currentVideoIndex = 0, !.isPlaying = TRUE,
                              !.progress = Percent(0, 1)]
  /\ PlayerFrame

\* pauseSequence
PauseSequence ==
  /\ Interactive
  /\ player' = [player EXCEPT !.isPlaying = FALSE]
  /\ PlayerFrame

\* resetSequence
ResetSequence ==
  /\ Interactive
  /\ player' = [player EXCEPT !.isPlaying = FALSE, !.currentVideoIndex = 0,
                              !.progress = Percent(0, 1)]
  /\ PlayerFrame

\* skipToVideo(index)
SkipToVideo(index) ==
  /\ Interactive
  /\ player' = IF index >= 0 /\ index < player.signVideos
                 THEN [player EXCEPT !.currentVideoIndex = index]
                 ELSE player
  /\ PlayerFrame

NextPlayer ==
  \/ \E length \in 0..MaxVideos : PropsChange(length)
  \/ EffectRun
  \/ HandleVideoEnd
  \/ \E videoProgress \in VideoProgress : HandleTimeUpdate(videoProgress)
  \/ PlaySequence
  \/ PauseSequence
  \/ ResetSequence
  \/ \E index \in -1..MaxVideos : SkipToVideo(index)

\* The player alone, from its mount.
InitPlayer == InitWith({}, 0)

SpecPlayer == InitPlayer /\ [][NextPlayer]_vars

\* ------------------------------------------------------------------ C30
\* C30: at every render with a non-empty list, the first one after the
\* list was replaced included, currentVideoIndex is an index of the list.
C30_IndexInRange ==
  player.signVideos > 0 =>
    /\ player.currentVideoIndex >= 0
    /\ player.currentVideoIndex < player.signVideos

\* The last of three clips was selected when the list was replaced by one
\* of two clips: the render read signVideos[2].
C30_Witness ==
  /\ player.threw
  /\ player.signVideos = 2
  /\ player.currentVideoIndex = 2

====
